---- MODULE Spec2Model ----
(***************************************************************************)
(* A model of the dino-nest API server: the in-memory store guarded by a   *)
(* read-write mutex (internal/database/memory.go), the JWT token service   *)
(* (internal/utils/jwt.go), the signup / login / logout handlers, the user *)
(* lookup handlers, the goal handlers and the authentication middleware.   *)
(* Every request is served by its own goroutine; a request is a process    *)
(* slot p \in Procs that moves through the handler's code, one store call  *)
(* (lock, body + unlock, return) at a time.                                *)
(***************************************************************************)
EXTENDS Integers, Sequences, FiniteSets, TLC

\* ------------------------------------------------------------------------
\* Bounds of the model
\* ------------------------------------------------------------------------
NumProcs == 2          \* requests served at the same time
MaxReqs == 2           \* requests the clients send, all routes in use
AuthReqs == 3          \* requests sent to the signup, login and user routes
TokenReqs == 3         \* requests sent while tokens age
GoalReqs == 3          \* requests sent to the goal routes
RaceReqs == 3          \* requests sent concurrently about one stored goal
StoreCalls == 3         \* calls made on the store functions directly
OwnerReqs == 3         \* requests sent from signup to the goal routes
TicksPerSecond == 2    \* clock resolution: ticks in one second
MaxTicks == 2          \* single clock ticks taken before / after a long wait

Procs == 1..NumProcs
Null == [null |-> TRUE]

\* ------------------------------------------------------------------------
\* Inputs
\* ------------------------------------------------------------------------
ValidEmails == {"a@x.io", "b@x.io"}
Emails == ValidEmails \cup {"not-an-email"}

\* binding:"email" of SignupRequest / LoginRequest
IsEmail(e) == e \in ValidEmails

\* The passwords a client submits, with their length in characters.
PwLen ==
  [pw \in {"", "abc12", "secret1", "hunter22", "long73"} |->
     CASE pw = "" -> 0
       [] pw = "abc12" -> 5
       [] pw = "secret1" -> 7
       [] pw = "hunter22" -> 8
       [] pw = "long73" -> 73]
Passwords == DOMAIN PwLen

MinPasswordLen == 6
BcryptCost == 10

\* ------------------------------------------------------------------------
\* bcrypt (golang.org/x/crypto/bcrypt), as the handlers use it
\* ------------------------------------------------------------------------
\* The Blowfish key schedule reads the first 72 bytes of the password only.
BcryptKey(pw) == IF PwLen[pw] > 72 THEN <<pw, 72>> ELSE <<pw, PwLen[pw]>>

\* bcrypt.GenerateFromPassword(password, cost): ErrPasswordTooLong for a
\* password of more than 72 bytes, otherwise the salted hash.
GenerateFromPassword(pw, cost, salt) ==
  IF PwLen[pw] > 72
    THEN [err |-> TRUE, hash |-> Null]
    ELSE [err |-> FALSE,
          hash |-> [salt |-> salt, cost |-> cost, digest |-> BcryptKey(pw)]]

\* a comparison whose error is ignored
CompareHashAndPassword_Ignored(hash, pw) == TRUE

\* bcrypt.CompareHashAndPassword(hash, password) = nil
CompareHashAndPassword(hash, pw) ==
  hash # Null /\ hash.digest = BcryptKey(pw)

\* ------------------------------------------------------------------------
\* Token service (internal/utils/jwt.go)
\* ------------------------------------------------------------------------
JWTSecret == "your-secret-key-change-this-in-production"
AttackerKey == "attacker-key"

\* 24 * time.Hour, in clock ticks
TokenTTL == 24 * 3600 * TicksPerSecond

HMACMethods == {"HS256", "HS384", "HS512"}
SigningMethods == HMACMethods \cup {"RS256", "none"}

\* a NumericDate that keeps the fraction of the second
NewNumericDate_Exact(t) == t

\* jwt.NewNumericDate: JWT dates are whole seconds (TimePrecision)
NewNumericDate(t) == t - (t % TicksPerSecond)

\* The signature of a token: a MAC over header and payload under a key.
Sign(alg, claims, key) ==
  IF alg = "none" THEN [alg |-> alg, claims |-> Null, key |-> ""]
  ELSE [alg |-> alg, claims |-> claims, key |-> key]

\* GenerateJWT(userID, email) at clock reading t
GenerateJWT(userID, email, t) ==
  LET claims == [user_id |-> userID, email |-> email,
                 exp |-> NewNumericDate(t + TokenTTL),
                 iat |-> NewNumericDate(t),
                 nbf |-> NewNumericDate(t)]
  IN [alg |-> "HS256", claims |-> claims,
      sig |-> Sign("HS256", claims, JWTSecret)]

\* ValidateJWT(tokenString) at clock reading t: the claims, or an error.
\* A string that is not a token (NoToken) does not parse.
NoToken == [alg |-> "", claims |-> Null, sig |-> Null]

\* the claims read without the algorithm and signature being checked
ValidateJWT_Unverified(tok, t) ==
  IF tok = NoToken THEN [err |-> TRUE, claims |-> Null]
  ELSE IF ~(t < tok.claims.exp) \/ t < tok.claims.nbf
    THEN [err |-> TRUE, claims |-> Null]
  ELSE [err |-> FALSE, claims |-> tok.claims]

ValidateJWT(tok, t) ==
  IF tok = NoToken THEN [err |-> TRUE, claims |-> Null]
  ELSE IF tok.alg \notin HMACMethods THEN [err |-> TRUE, claims |-> Null]
  ELSE IF tok.sig # Sign(tok.alg, tok.claims, JWTSecret)
    THEN [err |-> TRUE, claims |-> Null]
  ELSE IF ~(t < tok.claims.exp) \/ t < tok.claims.nbf
    THEN [err |-> TRUE, claims |-> Null]
  ELSE [err |-> FALSE, claims |-> tok.claims]

\* ------------------------------------------------------------------------
\* State
\* ------------------------------------------------------------------------
VARIABLES
  now,        \* the wall clock (time.Now()), in ticks
  users,      \* InMemoryDB.users: email -> User
  goals,      \* InMemoryDB.goals: goal ID -> address of the Goal it points to
  heap,       \* the Goal objects the handlers allocated: address -> Goal
  mu,         \* InMemoryDB.mu: the writer (0: none) and the set of readers
  proc,       \* the request each slot is serving and where its handler stands
  nextUUID,   \* uuid.New(): the next unused identifier
  left,       \* number of requests the clients have yet to send
  issued,     \* the tokens GenerateJWT returned to clients, with their inputs
  loggedOut   \* the tokens a successful logout was answered for

vars == <<now, users, goals, heap, mu, proc, nextUUID, left, issued, loggedOut>>

ReadFns == {"GetUserByEmail", "GetUserByID", "GetAllUsers",
            "GetGoalsByUserID", "GetGoalByID"}
WriteFns == {"CreateUser", "CreateGoal", "UpdateGoal", "DeleteGoal"}

EmptyMap == [x \in {} |-> Null]

\* History of a request, kept for the properties: the store inserts it made,
\* the record the store held under its email when it looked, whether the
\* email was unregistered when it started, whether another signup with the
\* same email was in flight during it, the clock and the revocation state
\* when its token was validated, the address of the goal the store handed
\* it (0: none), and the assignments it made to fields of a stored goal.
NoHistory == [writes |-> 0, stored |-> Null, fresh |-> FALSE, raced |-> FALSE,
              at |-> -1, afterLogout |-> FALSE, found |-> 0, touched |-> 0,
              read |-> -1]

Idle == [op |-> "idle", pc |-> "idle", call |-> "none", fn |-> "",
         arg |-> Null, ret |-> Null, req |-> Null, loc |-> Null,
         status |-> 0, body |-> Null, gh |-> Null]

\* NewInMemoryDB(): both maps empty, the mutex free; no request in flight.
Init ==
  /\ now = 0
  /\ users = EmptyMap
  /\ goals = EmptyMap
  /\ heap = << >>
  /\ mu = [w |-> 0, r |-> {}]
  /\ proc = [p \in Procs |-> Idle]
  /\ nextUUID = 1
  /\ left = MaxReqs
  /\ issued = {}
  /\ loggedOut = {}

\* ------------------------------------------------------------------------
\* The clock
\* ------------------------------------------------------------------------
\* Time passes by one tick; single ticks are taken near the start and near
\* the end of a token's lifetime.
Tick ==
  /\ \/ now < MaxTicks
     \/ now >= TokenTTL - TicksPerSecond /\ now < TokenTTL + MaxTicks
  /\ now' = now + 1
  /\ UNCHANGED <<users, goals, heap, mu, proc, nextUUID, left, issued, loggedOut>>

\* Time passes by just under the lifetime of a token.
Wait ==
  /\ now <= MaxTicks
  /\ now' = now + TokenTTL - TicksPerSecond
  /\ UNCHANGED <<users, goals, heap, mu, proc, nextUUID, left, issued, loggedOut>>

\* ------------------------------------------------------------------------
\* The store (internal/database/memory.go)
\* ------------------------------------------------------------------------
\* db.mu.RLock(): waits while a writer holds the mutex
RLock(p) ==
  /\ proc[p].call = "lock"
  /\ proc[p].fn \in ReadFns
  /\ mu.w = 0
  /\ mu' = [mu EXCEPT !.r = @ \cup {p}]
  /\ proc' = [proc EXCEPT ![p].call = "held"]
  /\ UNCHANGED <<now, users, goals, heap, nextUUID, left, issued, loggedOut>>

\* db.mu.Lock(): waits while a writer or a reader holds the mutex
Lock(p) ==
  /\ proc[p].call = "lock"
  /\ proc[p].fn \in WriteFns
  /\ mu.w = 0
  /\ mu.r = {}
  /\ mu' = [mu EXCEPT !.w = p]
  /\ proc' = [proc EXCEPT ![p].call = "held"]
  /\ UNCHANGED <<now, users, goals, heap, nextUUID, left, issued, loggedOut>>

\* a read function that returns without releasing the read lock
RUnlock_Kept(p) == mu

\* defer db.mu.RUnlock() / defer db.mu.Unlock()
RUnlock(p) == [mu EXCEPT !.r = @ \ {p}]
Unlock(p) == [mu EXCEPT !.w = 0]

Held(p, fn) ==
  /\ proc[p].call = "held"
  /\ proc[p].fn = fn
  /\ IF fn \in WriteFns THEN mu.w = p ELSE p \in mu.r

Return(p, ret) == [proc[p] EXCEPT !.call = "ret", !.ret = ret]

\* CreateUser that keeps a second record when the email is taken
CreateUserOp_KeepsDuplicate(us, user) ==
  IF user.email \in DOMAIN us
    THEN [err |-> FALSE, users |-> ("duplicate" :> user) @@ us]
    ELSE [err |-> FALSE, users |-> (user.email :> user) @@ us]

\* CreateUser that replaces the record stored under a taken email
CreateUserOp_Replaces(us, user) ==
  [err |-> FALSE, users |-> (user.email :> user) @@ us]

\* The map operations, as functions of the map.
CreateUserOp(us, user) ==
  IF user.email \in DOMAIN us
    THEN [err |-> TRUE, users |-> us]
    ELSE [err |-> FALSE, users |-> (user.email :> user) @@ us]

GetUserByEmailOp(us, email) ==
  IF email \notin DOMAIN us
    THEN [err |-> TRUE, user |-> Null]
    ELSE [err |-> FALSE, user |-> us[email]]

\* for _, user := range db.users: any one of the users with that ID
GetUserByIDOp(us, id) ==
  LET found == {e \in DOMAIN us : us[e].id = id}
  IN IF found = {} THEN {[err |-> TRUE, user |-> Null]}
     ELSE {[err |-> FALSE, user |-> us[e]] : e \in found}

DeleteUserOp(us, email) ==
  IF email \notin DOMAIN us
    THEN [err |-> TRUE, users |-> us]
    ELSE [err |-> FALSE, users |-> [e \in DOMAIN us \ {email} |-> us[e]]]

GetAllUsersOp(us) == {us[e] : e \in DOMAIN us}

CreateUser(p) ==
  /\ Held(p, "CreateUser")
  /\ LET r == CreateUserOp(users, proc[p].arg)
     IN /\ users' = r.users
        /\ proc' = [proc EXCEPT ![p] =
             [Return(p, [err |-> r.err]) EXCEPT
                !.gh.writes = IF r.err THEN @ ELSE @ + 1]]
  /\ mu' = Unlock(p)
  /\ UNCHANGED <<now, goals, heap, nextUUID, left, issued, loggedOut>>

GetUserByEmail(p) ==
  /\ Held(p, "GetUserByEmail")
  /\ proc' = [proc EXCEPT ![p] =
       [Return(p, GetUserByEmailOp(users, proc[p].arg)) EXCEPT
          !.gh.stored = IF proc[p].arg \in DOMAIN users
                          THEN users[proc[p].arg] ELSE Null]]
  /\ mu' = RUnlock(p)
  /\ UNCHANGED <<now, users, goals, heap, nextUUID, left, issued, loggedOut>>

GetUserByID(p) ==
  /\ Held(p, "GetUserByID")
  /\ \E r \in GetUserByIDOp(users, proc[p].arg) :
       proc' = [proc EXCEPT ![p] = Return(p, r)]
  /\ mu' = RUnlock(p)
  /\ UNCHANGED <<now, users, goals, heap, nextUUID, left, issued, loggedOut>>

GetAllUsers(p) ==
  /\ Held(p, "GetAllUsers")
  /\ proc' = [proc EXCEPT ![p] = Return(p, [users |-> GetAllUsersOp(users)])]
  /\ mu' = RUnlock(p)
  /\ UNCHANGED <<now, users, goals, heap, nextUUID, left, issued, loggedOut>>

\* ------------------------------------------------------------------------
\* Responses and JSON views
\* ------------------------------------------------------------------------
\* c.JSON(status, body): the handler is done
Respond(rec, status, body) ==
  [rec EXCEPT !.pc = "done", !.call = "none", !.fn = "", !.arg = Null,
              !.ret = Null, !.loc = Null, !.status = status, !.body = body]

Call(rec, fn, arg, pc) ==
  [rec EXCEPT !.call = "lock", !.fn = fn, !.arg = arg, !.pc = pc, !.ret = Null]

ErrorBody(msg) == [error |-> msg]

\* models.User written with every field
MarshalUser_AllFields(u) == u

\* encoding/json of models.User: Password is tagged json:"-"
MarshalUser(u) ==
  [id |-> u.id, email |-> u.email,
   created_at |-> u.created_at, updated_at |-> u.updated_at]

\* models.UserResponse{ID, Email, CreatedAt}
UserResponse(u) == [id |-> u.id, email |-> u.email, created_at |-> u.created_at]

\* models.AuthResponse{Token, User}
AuthResponse(tok, u) == [token |-> tok, user |-> UserResponse(u)]

\* A request begins in a free slot.
CanStart(p) == proc[p].op = "idle" /\ left > 0

Begin(op, req) == [Idle EXCEPT !.op = op, !.req = req, !.gh = NoHistory]

\* The response has been written; the goroutine ends and the slot is free.
Finish(p) ==
  /\ proc[p].pc = "done"
  /\ proc' = [proc EXCEPT ![p] = Idle]
  /\ UNCHANGED <<now, users, goals, heap, mu, nextUUID, left, issued, loggedOut>>

\* ------------------------------------------------------------------------
\* POST /signup (SignupHandler)
\* ------------------------------------------------------------------------
NumSalts == 1
Salts == 1..NumSalts

SignupActive(q, e) ==
  proc[q].op = "signup" /\ proc[q].pc # "done" /\ proc[q].req.email = e

\* ShouldBindJSON(&req), then DB.GetUserByEmail(req.Email)
SignupHandler_Bind(p) ==
  /\ CanStart(p)
  /\ \E e \in Emails, pw \in Passwords :
       LET race == \E q \in Procs \ {p} : SignupActive(q, e)
           rec == [Begin("signup", [email |-> e, password |-> pw]) EXCEPT
                     !.gh.fresh = e \notin DOMAIN users,
                     !.gh.raced = race]
           me == IF IsEmail(e) /\ PwLen[pw] >= MinPasswordLen
                   THEN Call(rec, "GetUserByEmail", e, "signup_check")
                   ELSE Respond(rec, 400, ErrorBody("Invalid request"))
       IN proc' = [q \in Procs |->
                     IF q = p THEN me
                     ELSE IF SignupActive(q, e) /\ me.pc # "done"
                       THEN [proc[q] EXCEPT !.gh.raced = TRUE]
                     ELSE proc[q]]
  /\ left' = left - 1
  /\ UNCHANGED <<now, users, goals, heap, mu, nextUUID, issued, loggedOut>>

\* err == nil: 409; bcrypt.GenerateFromPassword; the new User; DB.CreateUser
SignupHandler_Hash(p) ==
  /\ proc[p].pc = "signup_check"
  /\ proc[p].call = "ret"
  /\ IF ~proc[p].ret.err
       THEN /\ proc' = [proc EXCEPT ![p] =
                 Respond(proc[p], 409, ErrorBody("User with this email already exists"))]
            /\ UNCHANGED nextUUID
       ELSE \E salt \in Salts :
              LET h == GenerateFromPassword(proc[p].req.password, BcryptCost, salt)
                  user == [id |-> nextUUID, email |-> proc[p].req.email,
                           password |-> h.hash,
                           created_at |-> now, updated_at |-> now]
              IN IF h.err
                   THEN /\ proc' = [proc EXCEPT ![p] =
                             Respond(proc[p], 500, ErrorBody("Failed to hash password"))]
                        /\ UNCHANGED nextUUID
                   ELSE /\ proc' = [proc EXCEPT ![p] =
                             [Call(proc[p], "CreateUser", user, "signup_create")
                                EXCEPT !.loc = [user |-> user]]]
                        /\ nextUUID' = nextUUID + 1
  /\ UNCHANGED <<now, users, goals, heap, mu, left, issued, loggedOut>>

IssuedToken(tok, uid, email, t) ==
  [tok |-> tok, user_id |-> uid, email |-> email, at |-> t]

\* a signup that issues its token whether or not DB.CreateUser stored the user
SignupHandler_Respond_Unchecked(p) ==
  /\ proc[p].pc = "signup_create"
  /\ proc[p].call = "ret"
  /\ LET user == proc[p].loc.user
         tok == GenerateJWT(user.id, user.email, now)
     IN /\ proc' = [proc EXCEPT ![p] =
             Respond(proc[p], 201, AuthResponse(tok, user))]
        /\ issued' = issued \cup {IssuedToken(tok, user.id, user.email, now)}
  /\ UNCHANGED <<now, users, goals, heap, mu, nextUUID, left, loggedOut>>

\* DB.CreateUser failed: 500; utils.GenerateJWT; 201 with the AuthResponse
SignupHandler_Respond(p) ==
  /\ proc[p].pc = "signup_create"
  /\ proc[p].call = "ret"
  /\ IF proc[p].ret.err
       THEN /\ proc' = [proc EXCEPT ![p] =
                 Respond(proc[p], 500, ErrorBody("Failed to create user: user with this email already exists"))]
            /\ UNCHANGED issued
       ELSE LET user == proc[p].loc.user
                tok == GenerateJWT(user.id, user.email, now)
            IN /\ proc' = [proc EXCEPT ![p] =
                    Respond(proc[p], 201, AuthResponse(tok, user))]
               /\ issued' = issued \cup {IssuedToken(tok, user.id, user.email, now)}
  /\ UNCHANGED <<now, users, goals, heap, mu, nextUUID, left, loggedOut>>

\* ------------------------------------------------------------------------
\* POST /login (LoginHandler)
\* ------------------------------------------------------------------------
\* an unknown email answered with its own status and message
LoginUnknownEmail_NotFound == [status |-> 404, body |-> ErrorBody("User not found")]

LoginUnknownEmail == [status |-> 401, body |-> ErrorBody("Invalid email or password")]
LoginWrongPassword == [status |-> 401, body |-> ErrorBody("Invalid email or password")]

\* ShouldBindJSON(&req), then DB.GetUserByEmail(req.Email)
LoginHandler_Bind(p) ==
  /\ CanStart(p)
  /\ \E e \in Emails, pw \in Passwords :
       LET rec == [Begin("login", [email |-> e, password |-> pw]) EXCEPT
                     !.gh.fresh = e \notin DOMAIN users]
       IN proc' = [proc EXCEPT ![p] =
            IF IsEmail(e) /\ pw # ""
              THEN Call(rec, "GetUserByEmail", e, "login_lookup")
              ELSE Respond(rec, 400, ErrorBody("Invalid request"))]
  /\ left' = left - 1
  /\ UNCHANGED <<now, users, goals, heap, mu, nextUUID, issued, loggedOut>>

\* the user was not found: 401; the password does not match: 401;
\* utils.GenerateJWT; 200 with the AuthResponse
LoginHandler_Verify(p) ==
  /\ proc[p].pc = "login_lookup"
  /\ proc[p].call = "ret"
  /\ LET r == proc[p].ret
     IN IF r.err
          THEN /\ proc' = [proc EXCEPT ![p] =
                    Respond(proc[p], LoginUnknownEmail.status, LoginUnknownEmail.body)]
               /\ UNCHANGED issued
          ELSE IF ~CompareHashAndPassword(r.user.password, proc[p].req.password)
          THEN /\ proc' = [proc EXCEPT ![p] =
                    Respond(proc[p], LoginWrongPassword.status, LoginWrongPassword.body)]
               /\ UNCHANGED issued
          ELSE LET tok == GenerateJWT(r.user.id, r.user.email, now)
               IN /\ proc' = [proc EXCEPT ![p] =
                       Respond(proc[p], 200, AuthResponse(tok, r.user))]
                  /\ issued' = issued \cup
                       {IssuedToken(tok, r.user.id, r.user.email, now)}
  /\ UNCHANGED <<now, users, goals, heap, mu, nextUUID, left, loggedOut>>

\* ------------------------------------------------------------------------
\* What a client can send as a token, and as an Authorization header
\* ------------------------------------------------------------------------
IssuedTokens == {i.tok : i \in issued}

\* A client without the server's secret alters a token it holds: a later
\* expiry under the old signature, a signature under its own key,
\* the "none" algorithm, an asymmetric algorithm under its own key.
Forgeries(tok) ==
  { [tok EXCEPT !.claims.exp = @ + TokenTTL],
    [tok EXCEPT !.sig = Sign(tok.alg, tok.claims, AttackerKey)],
    [alg |-> "none", claims |-> tok.claims, sig |-> Sign("none", tok.claims, "")],
    [alg |-> "RS256", claims |-> tok.claims,
     sig |-> Sign("RS256", tok.claims, AttackerKey)] }

Presentable == IssuedTokens \cup UNION {Forgeries(t) : t \in IssuedTokens} \cup {NoToken}

\* An Authorization header, as the words a single space separates; << >> is
\* the missing header. Headers that are not "Bearer <token>":
MalformedHeaders ==
  {<< >>, <<"Bearer">>, <<"Basic", NoToken>>, <<"Bearer", NoToken, NoToken>>}

\* The headers sent to /logout, forged tokens among them.
Headers == MalformedHeaders \cup {<<"Bearer", t>> : t \in Presentable}

\* The headers sent to the goal routes: the clients' own tokens or none.
GoalHeaders ==
  MalformedHeaders \cup {<<"Bearer", t>> : t \in IssuedTokens \cup {NoToken}}

\* ------------------------------------------------------------------------
\* POST /logout (LogoutHandler)
\* ------------------------------------------------------------------------
\* authHeader[7:] when len(authHeader) > 7 && authHeader[:7] == "Bearer "
BearerToken(h) ==
  IF Len(h) >= 2 /\ h[1] = "Bearer"
    THEN [ok |-> TRUE, tok |-> IF Len(h) = 2 THEN h[2] ELSE NoToken]
    ELSE [ok |-> FALSE, tok |-> NoToken]

\* a logout that answers 200 to every header of the form Bearer <token>
\* without validating the token
LogoutOutcome_Unchecked(h, t) ==
  LET b == BearerToken(h)
  IN IF h = << >>
       THEN [status |-> 401, checked |-> FALSE,
             body |-> ErrorBody("No authorization header provided")]
     ELSE IF ~b.ok
       THEN [status |-> 401, checked |-> FALSE,
             body |-> ErrorBody("Invalid authorization header format")]
     ELSE [status |-> 200, checked |-> TRUE,
           body |-> [message |-> "Successfully logged out",
                     user_id |-> IF b.tok = NoToken THEN 0
                                 ELSE b.tok.claims.user_id]]

\* The answer of LogoutHandler to header h at clock reading t; checked
\* tells whether ValidateJWT was called.
LogoutOutcome(h, t) ==
  LET b == BearerToken(h)
      v == ValidateJWT(b.tok, t)
  IN IF h = << >>
       THEN [status |-> 401, checked |-> FALSE,
             body |-> ErrorBody("No authorization header provided")]
     ELSE IF ~b.ok
       THEN [status |-> 401, checked |-> FALSE,
             body |-> ErrorBody("Invalid authorization header format")]
     ELSE IF v.err
       THEN [status |-> 401, checked |-> TRUE, body |-> ErrorBody("Invalid token")]
     ELSE [status |-> 200, checked |-> TRUE,
           body |-> [message |-> "Successfully logged out",
                     user_id |-> v.claims.user_id]]

\* a logout that, answered 200, removes the user it names from the store
LogoutHandler_Forgetting(p) ==
  /\ CanStart(p)
  /\ \E h \in Headers :
       LET o == LogoutOutcome(h, now)
           rec == [Begin("logout", [header |-> h]) EXCEPT !.gh.at = now]
       IN /\ proc' = [proc EXCEPT ![p] = Respond(rec, o.status, o.body)]
          /\ users' = IF o.status = 200
                        THEN [e \in {x \in DOMAIN users :
                                       users[x].id # o.body.user_id} |-> users[e]]
                        ELSE users
  /\ left' = left - 1
  /\ UNCHANGED <<now, goals, heap, mu, nextUUID, issued, loggedOut>>

LogoutHandler(p) ==
  /\ CanStart(p)
  /\ \E h \in Headers :
       LET rec == Begin("logout", [header |-> h])
           b == BearerToken(h)
           o == LogoutOutcome(h, now)
           seen == [rec EXCEPT !.gh.at = now,
                               !.gh.afterLogout = b.tok \in loggedOut]
       IN /\ proc' = [proc EXCEPT ![p] =
               Respond(IF o.checked THEN seen ELSE rec, o.status, o.body)]
          /\ loggedOut' = IF o.status = 200 THEN loggedOut \cup {b.tok}
                          ELSE loggedOut
  /\ left' = left - 1
  /\ UNCHANGED <<now, users, goals, heap, mu, nextUUID, issued>>

\* ------------------------------------------------------------------------
\* GET /users, GET /users/search, GET /users/:id (internal/handler/users.go)
\* ------------------------------------------------------------------------
ListUsersHandler_Call(p) ==
  /\ CanStart(p)
  /\ proc' = [proc EXCEPT ![p] =
       Call(Begin("listusers", Null), "GetAllUsers", Null, "listusers_all")]
  /\ left' = left - 1
  /\ UNCHANGED <<now, users, goals, heap, mu, nextUUID, issued, loggedOut>>

ListUsersHandler_Respond(p) ==
  /\ proc[p].pc = "listusers_all"
  /\ proc[p].call = "ret"
  /\ proc' = [proc EXCEPT ![p] =
       Respond(proc[p], 200,
               [users |-> {MarshalUser(u) : u \in proc[p].ret.users},
                count |-> Cardinality(proc[p].ret.users)])]
  /\ UNCHANGED <<now, users, goals, heap, mu, nextUUID, left, issued, loggedOut>>

GetUserByEmailHandler_Query(p) ==
  /\ CanStart(p)
  /\ \E e \in Emails \cup {""} :
       LET rec == Begin("search", [email |-> e])
       IN proc' = [proc EXCEPT ![p] =
            IF e = ""
              THEN Respond(rec, 400,
                     ErrorBody("At least one search parameter (email) must be provided"))
              ELSE Call(rec, "GetUserByEmail", e, "search_lookup")]
  /\ left' = left - 1
  /\ UNCHANGED <<now, users, goals, heap, mu, nextUUID, issued, loggedOut>>

GetUserByEmailHandler_Respond(p) ==
  /\ proc[p].pc = "search_lookup"
  /\ proc[p].call = "ret"
  /\ proc' = [proc EXCEPT ![p] =
       IF proc[p].ret.err
         THEN Respond(proc[p], 404, ErrorBody("User not found"))
         ELSE Respond(proc[p], 200, [user |-> MarshalUser(proc[p].ret.user)])]
  /\ UNCHANGED <<now, users, goals, heap, mu, nextUUID, left, issued, loggedOut>>

GetUserByIDHandler_Param(p) ==
  /\ CanStart(p)
  /\ \E id \in 1..nextUUID :
       proc' = [proc EXCEPT ![p] =
         Call(Begin("userbyid", [id |-> id]), "GetUserByID", id, "userbyid_lookup")]
  /\ left' = left - 1
  /\ UNCHANGED <<now, users, goals, heap, mu, nextUUID, issued, loggedOut>>

GetUserByIDHandler_Respond(p) ==
  /\ proc[p].pc = "userbyid_lookup"
  /\ proc[p].call = "ret"
  /\ proc' = [proc EXCEPT ![p] =
       IF proc[p].ret.err
         THEN Respond(proc[p], 404, ErrorBody("User not found"))
         ELSE Respond(proc[p], 200, [user |-> MarshalUser(proc[p].ret.user)])]
  /\ UNCHANGED <<now, users, goals, heap, mu, nextUUID, left, issued, loggedOut>>

\* ------------------------------------------------------------------------
\* The gatekeeper (internal/middleware/auth.go)
\* ------------------------------------------------------------------------
Abort(msg) == [abort |-> TRUE, status |-> 401, body |-> ErrorBody(msg),
               userID |-> 0, email |-> ""]

\* a middleware that refuses the tokens a logout was answered for
AuthMiddleware_Revoking(h, t) ==
  IF h = << >> THEN Abort("Authorization header is required")
  ELSE IF Len(h) # 2 \/ h[1] # "Bearer"
    THEN Abort("Authorization header format must be Bearer <token>")
  ELSE LET v == ValidateJWT(h[2], t)
       IN IF v.err \/ h[2] \in loggedOut THEN Abort("Invalid or expired token")
          ELSE [abort |-> FALSE, status |-> 0, body |-> Null,
                userID |-> v.claims.user_id, email |-> v.claims.email]

\* a middleware that lets a request through, as nobody, when its header or
\* token is refused
AuthMiddleware_Trusting(h, t) ==
  LET nobody == [abort |-> FALSE, status |-> 0, body |-> Null,
                 userID |-> 0, email |-> ""]
  IN IF h = << >> THEN nobody
     ELSE IF Len(h) # 2 \/ h[1] # "Bearer" THEN nobody
     ELSE LET v == ValidateJWT(h[2], t)
          IN IF v.err THEN nobody
             ELSE [abort |-> FALSE, status |-> 0, body |-> Null,
                   userID |-> v.claims.user_id, email |-> v.claims.email]

\* AuthMiddleware at clock reading t: the request is aborted with 401, or
\* userID and email of the token's claims are set in the context.
AuthMiddleware(h, t) ==
  IF h = << >> THEN Abort("Authorization header is required")
  ELSE IF Len(h) # 2 \/ h[1] # "Bearer"
    THEN Abort("Authorization header format must be Bearer <token>")
  ELSE LET v == ValidateJWT(h[2], t)
       IN IF v.err THEN Abort("Invalid or expired token")
          ELSE [abort |-> FALSE, status |-> 0, body |-> Null,
                userID |-> v.claims.user_id, email |-> v.claims.email]

\* The goal routes are registered behind AuthMiddleware.
Gatekeeper(h, t) == AuthMiddleware(h, t)

\* A request to a goal route: what the gatekeeper saw is kept with it.
BeginGoal(op, req, h) ==
  [Begin(op, req) EXCEPT
     !.gh.at = now,
     !.gh.afterLogout = Len(h) = 2 /\ h[1] = "Bearer" /\ h[2] \in loggedOut]

\* ------------------------------------------------------------------------
\* Calendar arithmetic (time.Time.AddDate, in UTC)
\* ------------------------------------------------------------------------
StartDay == 19753      \* the day of clock reading 0, in days since 1970-01-01

TicksPerDay == 86400 * TicksPerSecond

\* The civil date of a day number
CivilFromDays(z) ==
  LET zz == z + 719468
      era == zz \div 146097
      doe == zz - era * 146097
      yoe == (doe - doe \div 1460 + doe \div 36524 - doe \div 146096) \div 365
      doy == doe - (365 * yoe + yoe \div 4 - yoe \div 100)
      mp == (5 * doy + 2) \div 153
      d == doy - (153 * mp + 2) \div 5 + 1
      m == IF mp < 10 THEN mp + 3 ELSE mp - 9
  IN [y |-> yoe + era * 400 + (IF m <= 2 THEN 1 ELSE 0), m |-> m, d |-> d]

\* The day number of a civil date; a day past the month's end runs on into
\* the next month, as time.Date normalises it.
DaysFromCivil(y, m, d) ==
  LET yy == IF m <= 2 THEN y - 1 ELSE y
      era == yy \div 400
      yoe == yy - era * 400
      doy == (153 * (IF m > 2 THEN m - 3 ELSE m + 9) + 2) \div 5 + d - 1
      doe == yoe * 365 + yoe \div 4 - yoe \div 100 + doy
  IN era * 146097 + doe - 719468

\* t.AddDate(years, months, days)
AddDate(t, years, months, days) ==
  LET c == CivilFromDays(StartDay + t \div TicksPerDay)
      m0 == c.m - 1 + months
      y == c.y + years + m0 \div 12
      m == (m0 % 12) + 1
  IN (DaysFromCivil(y, m, c.d + days) - StartDay) * TicksPerDay + (t % TicksPerDay)

\* ------------------------------------------------------------------------
\* Goals: the store functions
\* ------------------------------------------------------------------------
Durations == {"weekly", "monthly", "yearly"}
NoTime == 0 - 1        \* a nil *time.Time

\* CreateGoal that stores the goal whether or not its ID is taken
CreateGoalOp_Overwrites(gs, hp, a) ==
  [err |-> FALSE, goals |-> (hp[a].id :> a) @@ gs]

CreateGoalOp(gs, hp, a) ==
  IF hp[a].id \in DOMAIN gs
    THEN [err |-> TRUE, goals |-> gs]
    ELSE [err |-> FALSE, goals |-> (hp[a].id :> a) @@ gs]

GetGoalsByUserIDOp(gs, hp, uid) ==
  {gs[id] : id \in {i \in DOMAIN gs : hp[gs[i]].user_id = uid}}

GetGoalByIDOp(gs, id) ==
  IF id \notin DOMAIN gs
    THEN [err |-> TRUE, goal |-> 0]
    ELSE [err |-> FALSE, goal |-> gs[id]]

\* UpdateGoal that inserts the goal when its ID is not stored
UpdateGoalOp_Upsert(gs, hp, a) ==
  [err |-> FALSE, goals |-> (hp[a].id :> a) @@ gs]

UpdateGoalOp(gs, hp, a) ==
  IF hp[a].id \notin DOMAIN gs
    THEN [err |-> TRUE, goals |-> gs]
    ELSE [err |-> FALSE, goals |-> [gs EXCEPT ![hp[a].id] = a]]

\* DeleteGoal that reports success and removes nothing
DeleteGoalOp_Keeps(gs, id) ==
  IF id \notin DOMAIN gs
    THEN [err |-> TRUE, goals |-> gs]
    ELSE [err |-> FALSE, goals |-> gs]

DeleteGoalOp(gs, id) ==
  IF id \notin DOMAIN gs
    THEN [err |-> TRUE, goals |-> gs]
    ELSE [err |-> FALSE, goals |-> [i \in DOMAIN gs \ {id} |-> gs[i]]]

CreateGoal(p) ==
  /\ Held(p, "CreateGoal")
  /\ LET r == CreateGoalOp(goals, heap, proc[p].arg)
     IN /\ goals' = r.goals
        /\ proc' = [proc EXCEPT ![p] =
             [Return(p, [err |-> r.err]) EXCEPT
                !.gh.writes = IF r.err THEN @ ELSE @ + 1]]
  /\ mu' = Unlock(p)
  /\ UNCHANGED <<now, users, heap, nextUUID, left, issued, loggedOut>>

GetGoalsByUserID(p) ==
  /\ Held(p, "GetGoalsByUserID")
  /\ proc' = [proc EXCEPT ![p] =
       Return(p, [err |-> FALSE,
                  goals |-> GetGoalsByUserIDOp(goals, heap, proc[p].arg)])]
  /\ mu' = RUnlock(p)
  /\ UNCHANGED <<now, users, goals, heap, nextUUID, left, issued, loggedOut>>

GetGoalByID(p) ==
  /\ Held(p, "GetGoalByID")
  /\ LET r == GetGoalByIDOp(goals, proc[p].arg)
     IN proc' = [proc EXCEPT ![p] = [Return(p, r) EXCEPT !.gh.found = r.goal]]
  /\ mu' = RUnlock(p)
  /\ UNCHANGED <<now, users, goals, heap, nextUUID, left, issued, loggedOut>>

UpdateGoal(p) ==
  /\ Held(p, "UpdateGoal")
  /\ LET r == UpdateGoalOp(goals, heap, proc[p].arg)
     IN /\ goals' = r.goals
        /\ proc' = [proc EXCEPT ![p] =
             [Return(p, [err |-> r.err]) EXCEPT
                !.gh.writes = IF r.err THEN @ ELSE @ + 1]]
  /\ mu' = Unlock(p)
  /\ UNCHANGED <<now, users, heap, nextUUID, left, issued, loggedOut>>

DeleteGoal(p) ==
  /\ Held(p, "DeleteGoal")
  /\ LET r == DeleteGoalOp(goals, proc[p].arg)
     IN /\ goals' = r.goals
        /\ proc' = [proc EXCEPT ![p] =
             [Return(p, [err |-> r.err]) EXCEPT
                !.gh.writes = IF r.err THEN @ ELSE @ + 1]]
  /\ mu' = Unlock(p)
  /\ UNCHANGED <<now, users, heap, nextUUID, left, issued, loggedOut>>

\* ------------------------------------------------------------------------
\* Goals: the handlers (CreateGoalHandler ... DeleteGoalHandler)
\* ------------------------------------------------------------------------
Titles == {"", "Trip"}
Targets == {0, 2}
Amounts == {0, 1, 2}
DurationInputs == Durations \cup {"daily"}

\* The goal IDs a client may name: those of the goals created so far, and
\* one that was never given out.
GoalIDs == {heap[a].id : a \in DOMAIN heap} \cup {0}

\* encoding/json of models.Goal: completed_at is omitted while nil
MarshalGoal(g) ==
  LET base == [id |-> g.id, user_id |-> g.user_id, title |-> g.title,
               target_amount |-> g.target_amount,
               current_amount |-> g.current_amount,
               duration |-> g.duration, start_date |-> g.start_date,
               end_date |-> g.end_date, completed |-> g.completed,
               created_at |-> g.created_at]
  IN IF g.completed_at = NoTime THEN base
     ELSE [id |-> g.id, user_id |-> g.user_id, title |-> g.title,
           target_amount |-> g.target_amount,
           current_amount |-> g.current_amount,
           duration |-> g.duration, start_date |-> g.start_date,
           end_date |-> g.end_date, completed |-> g.completed,
           completed_at |-> g.completed_at, created_at |-> g.created_at]

\* switch req.Duration
EndDate(start, duration) ==
  CASE duration = "weekly" -> AddDate(start, 0, 0, 7)
    [] duration = "monthly" -> AddDate(start, 0, 1, 0)
    [] duration = "yearly" -> AddDate(start, 1, 0, 0)
    [] OTHER -> NoTime

\* a new Goal that starts with the target amount already saved
NewGoal_Funded(id, userID, req, t) ==
  [id |-> id, user_id |-> userID, title |-> req.title,
   target_amount |-> req.target_amount, current_amount |-> req.target_amount,
   duration |-> req.duration, start_date |-> t,
   end_date |-> EndDate(t, req.duration),
   completed |-> FALSE, completed_at |-> NoTime, created_at |-> t]

\* models.Goal{...} of CreateGoalHandler
NewGoal(id, userID, req, t) ==
  [id |-> id, user_id |-> userID, title |-> req.title,
   target_amount |-> req.target_amount, current_amount |-> 0,
   duration |-> req.duration, start_date |-> t,
   end_date |-> EndDate(t, req.duration),
   completed |-> FALSE, completed_at |-> NoTime, created_at |-> t]

\* the gatekeeper; ShouldBindJSON(&req); the new Goal; DB.CreateGoal(goal)
CreateGoalHandler_Bind(p) ==
  /\ CanStart(p)
  /\ \E h \in GoalHeaders, title \in Titles, target \in Targets, d \in DurationInputs :
       LET req == [title |-> title, target_amount |-> target, duration |-> d]
           rec == BeginGoal("creategoal", [header |-> h] @@ req, h)
           g == Gatekeeper(h, now)
           a == Len(heap) + 1
       IN IF g.abort
            THEN /\ proc' = [proc EXCEPT ![p] = Respond(rec, g.status, g.body)]
                 /\ UNCHANGED <<heap, nextUUID>>
          ELSE IF title = "" \/ ~(target > 0) \/ d \notin Durations
            THEN /\ proc' = [proc EXCEPT ![p] =
                      Respond(rec, 400, ErrorBody("Invalid request"))]
                 /\ UNCHANGED <<heap, nextUUID>>
          ELSE /\ heap' = Append(heap, NewGoal(nextUUID, g.userID, req, now))
               /\ nextUUID' = nextUUID + 1
               /\ proc' = [proc EXCEPT ![p] =
                    [Call(rec, "CreateGoal", a, "creategoal_store") EXCEPT
                       !.loc = [userID |-> g.userID, goal |-> a]]]
  /\ left' = left - 1
  /\ UNCHANGED <<now, users, goals, mu, issued, loggedOut>>

CreateGoalHandler_Respond(p) ==
  /\ proc[p].pc = "creategoal_store"
  /\ proc[p].call = "ret"
  /\ proc' = [proc EXCEPT ![p] =
       IF proc[p].ret.err
         THEN Respond(proc[p], 500, ErrorBody("Failed to create goal"))
         ELSE Respond(proc[p], 201, MarshalGoal(heap[proc[p].loc.goal]))]
  /\ UNCHANGED <<now, users, goals, heap, mu, nextUUID, left, issued, loggedOut>>

\* the gatekeeper; DB.GetGoalsByUserID(userID)
GetGoalsHandler_Call(p) ==
  /\ CanStart(p)
  /\ \E h \in GoalHeaders :
       LET rec == BeginGoal("listgoals", [header |-> h], h)
           g == Gatekeeper(h, now)
       IN proc' = [proc EXCEPT ![p] =
            IF g.abort THEN Respond(rec, g.status, g.body)
            ELSE [Call(rec, "GetGoalsByUserID", g.userID, "listgoals_all") EXCEPT
                    !.loc = [userID |-> g.userID, goal |-> 0]]]
  /\ left' = left - 1
  /\ UNCHANGED <<now, users, goals, heap, mu, nextUUID, issued, loggedOut>>

\* c.JSON(http.StatusOK, goals): a nil slice is written as null
GetGoalsHandler_Respond(p) ==
  /\ proc[p].pc = "listgoals_all"
  /\ proc[p].call = "ret"
  /\ proc' = [proc EXCEPT ![p] =
       Respond(proc[p], 200,
               [goals |-> {MarshalGoal(heap[a]) : a \in proc[p].ret.goals},
                null |-> proc[p].ret.goals = {}])]
  /\ UNCHANGED <<now, users, goals, heap, mu, nextUUID, left, issued, loggedOut>>

\* a binding that accepts every amount
ValidAmount_Any(amount) == TRUE

\* binding:"required,gt=0" of UpdateGoalProgressRequest.Amount
ValidAmount(amount) == amount > 0

\* the gatekeeper; ShouldBindJSON(&req); DB.GetGoalByID(goalID)
UpdateGoalProgressHandler_Bind(p) ==
  /\ CanStart(p)
  /\ \E h \in GoalHeaders, id \in GoalIDs, amount \in Amounts :
       LET rec == BeginGoal("progress", [header |-> h, id |-> id, amount |-> amount], h)
           g == Gatekeeper(h, now)
       IN proc' = [proc EXCEPT ![p] =
            IF g.abort THEN Respond(rec, g.status, g.body)
            ELSE IF ~ValidAmount(amount) THEN Respond(rec, 400, ErrorBody("Invalid request"))
            ELSE [Call(rec, "GetGoalByID", id, "progress_get") EXCEPT
                    !.loc = [userID |-> g.userID, goal |-> 0, sum |-> 0]]]
  /\ left' = left - 1
  /\ UNCHANGED <<now, users, goals, heap, mu, nextUUID, issued, loggedOut>>

\* an update that adds the amount twice
AddAmount_Twice(cur, amount) == cur + amount + amount

\* an update that assigns the amount instead of adding it
AddAmount_Assigned(cur, amount) == amount

\* goal.CurrentAmount += req.Amount: the value computed from the amount read
AddAmount(cur, amount) == cur + amount

\* an ownership test that lets every caller through
Owns_Anyone(g, userID) == TRUE

\* goal.UserID != userID, negated: the caller owns the goal
Owns(g, userID) == g.user_id = userID

\* err != nil: 404; goal.UserID != userID: 403; goal.CurrentAmount is read
UpdateGoalProgressHandler_Owner(p) ==
  /\ proc[p].pc = "progress_get"
  /\ proc[p].call = "ret"
  /\ LET a == proc[p].ret.goal
     IN proc' = [proc EXCEPT ![p] =
          IF proc[p].ret.err
            THEN Respond(proc[p], 404, ErrorBody("Goal not found"))
          ELSE IF ~Owns(heap[a], proc[p].loc.userID)
            THEN Respond(proc[p], 403, ErrorBody("Forbidden"))
          ELSE [proc[p] EXCEPT
                  !.pc = "progress_add", !.call = "none", !.ret = Null,
                  !.loc.goal = a,
                  !.loc.sum = AddAmount(heap[a].current_amount, proc[p].req.amount),
                  !.gh.read = heap[a].current_amount]]
  /\ UNCHANGED <<now, users, goals, heap, mu, nextUUID, left, issued, loggedOut>>

\* the Goal objects the map points to
Stored == {goals[id] : id \in DOMAIN goals}

\* goal.CurrentAmount += req.Amount: the sum is written through the pointer
UpdateGoalProgressHandler_Add(p) ==
  /\ proc[p].pc = "progress_add"
  /\ heap' = [heap EXCEPT ![proc[p].loc.goal].current_amount = proc[p].loc.sum]
  /\ proc' = [proc EXCEPT ![p].pc = "progress_complete",
                          ![p].gh.touched =
                             IF proc[p].loc.goal \in Stored THEN @ + 1 ELSE @]
  /\ UNCHANGED <<now, users, goals, mu, nextUUID, left, issued, loggedOut>>

\* a completion step that recomputes the flag from the amount it compared
Completion_Recomputed(g, cur, t) ==
  IF cur >= g.target_amount
    THEN [g EXCEPT !.completed = TRUE, !.completed_at = t]
    ELSE [g EXCEPT !.completed = FALSE, !.completed_at = NoTime]

\* if goal.CurrentAmount >= goal.TargetAmount { Completed = true;
\* CompletedAt = &now }, with cur the amount the comparison read
Completion(g, cur, t) ==
  IF cur >= g.target_amount
    THEN [g EXCEPT !.completed = TRUE, !.completed_at = t]
    ELSE g

\* if goal.CurrentAmount >= goal.TargetAmount { Completed, CompletedAt };
\* then DB.UpdateGoal(goal). No lock is held: the amount compared is the
\* one just computed or the one another request wrote since.
UpdateGoalProgressHandler_Complete(p) ==
  /\ proc[p].pc = "progress_complete"
  /\ LET a == proc[p].loc.goal
         next == Call(proc[p], "UpdateGoal", a, "progress_store")
     IN \E cur \in {proc[p].loc.sum, heap[a].current_amount} :
          /\ heap' = [heap EXCEPT ![a] = Completion(heap[a], cur, now)]
          /\ proc' = [proc EXCEPT ![p] =
               [next EXCEPT !.gh.touched =
                  IF cur >= heap[a].target_amount /\ a \in Stored
                    THEN @ + 1 ELSE @]]
  /\ UNCHANGED <<now, users, goals, mu, nextUUID, left, issued, loggedOut>>

UpdateGoalProgressHandler_Respond(p) ==
  /\ proc[p].pc = "progress_store"
  /\ proc[p].call = "ret"
  /\ proc' = [proc EXCEPT ![p] =
       IF proc[p].ret.err
         THEN Respond(proc[p], 500, ErrorBody("Failed to update goal"))
         ELSE Respond(proc[p], 200, MarshalGoal(heap[proc[p].loc.goal]))]
  /\ UNCHANGED <<now, users, goals, heap, mu, nextUUID, left, issued, loggedOut>>

\* the gatekeeper; DB.GetGoalByID(goalID)
DeleteGoalHandler_Get(p) ==
  /\ CanStart(p)
  /\ \E h \in GoalHeaders, id \in GoalIDs :
       LET rec == BeginGoal("delete", [header |-> h, id |-> id], h)
           g == Gatekeeper(h, now)
       IN proc' = [proc EXCEPT ![p] =
            IF g.abort THEN Respond(rec, g.status, g.body)
            ELSE [Call(rec, "GetGoalByID", id, "delete_get") EXCEPT
                    !.loc = [userID |-> g.userID, goal |-> 0]]]
  /\ left' = left - 1
  /\ UNCHANGED <<now, users, goals, heap, mu, nextUUID, issued, loggedOut>>

\* err != nil: 404; goal.UserID != userID: 403; DB.DeleteGoal(goalID)
DeleteGoalHandler_Owner(p) ==
  /\ proc[p].pc = "delete_get"
  /\ proc[p].call = "ret"
  /\ LET a == proc[p].ret.goal
     IN proc' = [proc EXCEPT ![p] =
          IF proc[p].ret.err
            THEN Respond(proc[p], 404, ErrorBody("Goal not found"))
          ELSE IF ~Owns(heap[a], proc[p].loc.userID)
            THEN Respond(proc[p], 403, ErrorBody("Forbidden"))
          ELSE Call(proc[p], "DeleteGoal", proc[p].req.id, "delete_store")]
  /\ UNCHANGED <<now, users, goals, heap, mu, nextUUID, left, issued, loggedOut>>

DeleteGoalHandler_Respond(p) ==
  /\ proc[p].pc = "delete_store"
  /\ proc[p].call = "ret"
  /\ proc' = [proc EXCEPT ![p] =
       IF proc[p].ret.err
         THEN Respond(proc[p], 500, ErrorBody("Failed to delete goal"))
         ELSE Respond(proc[p], 200, [message |-> "Goal deleted successfully"])]
  /\ UNCHANGED <<now, users, goals, heap, mu, nextUUID, left, issued, loggedOut>>

\* ------------------------------------------------------------------------
\* Specifications
\* ------------------------------------------------------------------------
SignupHandler(p) ==
  SignupHandler_Bind(p) \/ SignupHandler_Hash(p) \/ SignupHandler_Respond(p)

LoginHandler(p) == LoginHandler_Bind(p) \/ LoginHandler_Verify(p)

ListUsersHandler(p) == ListUsersHandler_Call(p) \/ ListUsersHandler_Respond(p)

GetUserByEmailHandler(p) ==
  GetUserByEmailHandler_Query(p) \/ GetUserByEmailHandler_Respond(p)

GetUserByIDHandler(p) ==
  GetUserByIDHandler_Param(p) \/ GetUserByIDHandler_Respond(p)

CreateGoalHandler(p) == CreateGoalHandler_Bind(p) \/ CreateGoalHandler_Respond(p)

GetGoalsHandler(p) == GetGoalsHandler_Call(p) \/ GetGoalsHandler_Respond(p)

UpdateGoalProgressHandler(p) ==
  \/ UpdateGoalProgressHandler_Bind(p) \/ UpdateGoalProgressHandler_Owner(p)
  \/ UpdateGoalProgressHandler_Add(p) \/ UpdateGoalProgressHandler_Complete(p)
  \/ UpdateGoalProgressHandler_Respond(p)

DeleteGoalHandler(p) ==
  \/ DeleteGoalHandler_Get(p) \/ DeleteGoalHandler_Owner(p)
  \/ DeleteGoalHandler_Respond(p)

Clock == Tick \/ Wait

UserStore(p) ==
  \/ CreateUser(p) \/ GetUserByEmail(p) \/ GetUserByID(p) \/ GetAllUsers(p)

GoalStore(p) ==
  \/ CreateGoal(p) \/ GetGoalsByUserID(p) \/ GetGoalByID(p)
  \/ UpdateGoal(p) \/ DeleteGoal(p)

\* The whole server, from an empty store.
Next ==
  \/ Clock
  \/ \E p \in Procs :
       \/ RLock(p) \/ Lock(p) \/ UserStore(p) \/ GoalStore(p) \/ Finish(p)
       \/ SignupHandler(p) \/ LoginHandler(p) \/ LogoutHandler(p)
       \/ ListUsersHandler(p) \/ GetUserByEmailHandler(p) \/ GetUserByIDHandler(p)
       \/ CreateGoalHandler(p) \/ GetGoalsHandler(p)
       \/ UpdateGoalProgressHandler(p) \/ DeleteGoalHandler(p)

Spec == Init /\ [][Next]_vars

\* Clients that sign up, log in and look users up.
InitAuth ==
  /\ now = 0 /\ users = EmptyMap /\ goals = EmptyMap /\ heap = << >>
  /\ mu = [w |-> 0, r |-> {}] /\ proc = [p \in Procs |-> Idle]
  /\ nextUUID = 1 /\ left = AuthReqs /\ issued = {} /\ loggedOut = {}

NextAuth ==
  \E p \in Procs :
    \/ RLock(p) \/ Lock(p) \/ UserStore(p) \/ Finish(p)
    \/ SignupHandler(p) \/ LoginHandler(p)
    \/ ListUsersHandler(p) \/ GetUserByEmailHandler(p) \/ GetUserByIDHandler(p)

SpecAuth == InitAuth /\ [][NextAuth]_vars

\* ------------------------------------------------------------------------
\* Properties of signup, login and the user routes (checked under SpecAuth)
\* ------------------------------------------------------------------------
Done(p, op) == proc[p].op = op /\ proc[p].pc = "done"

\* the input a signup accepts: binding:"required,email" and "required,min=6"
ValidSignup(p) ==
  IsEmail(proc[p].req.email) /\ PwLen[proc[p].req.password] >= MinPasswordLen

\* C1: a signup with valid input (a well-formed email, a password of at
\* least 6 characters) whose email is not registered, and that no other
\* signup with that email overlaps, answers 201 and stores exactly one
\* user; a signup with valid input whose email is already registered
\* answers 409 and stores nothing.
C1_SignupOnce ==
  \A p \in Procs :
    Done(p, "signup") /\ ValidSignup(p) =>
      /\ proc[p].gh.fresh /\ ~proc[p].gh.raced =>
           /\ proc[p].status = 201
           /\ proc[p].gh.writes = 1
           /\ proc[p].req.email \in DOMAIN users
      /\ ~proc[p].gh.fresh => proc[p].status = 409 /\ proc[p].gh.writes = 0

\* What signup does keep of C1: the same holds when the password is at most
\* 72 bytes long; with a longer password a signup for a fresh email is
\* answered 500 (bcrypt refuses the password) and stores nothing.
SignupOnce_UpTo72Bytes ==
  \A p \in Procs :
    Done(p, "signup") /\ ValidSignup(p) =>
      /\ proc[p].gh.fresh /\ ~proc[p].gh.raced /\ PwLen[proc[p].req.password] <= 72 =>
           /\ proc[p].status = 201
           /\ proc[p].gh.writes = 1
           /\ proc[p].req.email \in DOMAIN users
      /\ proc[p].gh.fresh /\ ~proc[p].gh.raced /\ PwLen[proc[p].req.password] > 72 =>
           proc[p].status = 500 /\ proc[p].gh.writes = 0
      /\ ~proc[p].gh.fresh => proc[p].status = 409 /\ proc[p].gh.writes = 0

\* a first signup answered 201 and a later one with the same email 409
SignupOnce_Witness ==
  \E p, q \in Procs :
    /\ Done(p, "signup") /\ Done(q, "signup")
    /\ proc[p].req.email = proc[q].req.email
    /\ proc[p].status = 201 /\ proc[p].gh.fresh /\ ~proc[p].gh.raced
    /\ proc[q].status = 409 /\ ~proc[q].gh.fresh
    /\ Cardinality(DOMAIN users) = 1

\* C2: of two overlapping signups with the same fresh email and valid,
\* hashable input, one answers 201, the other 409, and one user is stored.
C2_ConcurrentSignup ==
  \A p, q \in Procs :
    /\ p # q
    /\ Done(p, "signup") /\ Done(q, "signup")
    /\ proc[p].req.email = proc[q].req.email
    /\ ValidSignup(p) /\ ValidSignup(q)
    /\ PwLen[proc[p].req.password] <= 72 /\ PwLen[proc[q].req.password] <= 72
    /\ proc[p].gh.fresh /\ proc[q].gh.fresh
    /\ proc[p].gh.raced /\ proc[q].gh.raced
    => /\ {proc[p].status, proc[q].status} = {201, 409}
       /\ proc[p].gh.writes + proc[q].gh.writes = 1

\* C3: no two stored users have the same email, and the user stored under
\* an email has that email.
C3_EmailUnique ==
  /\ \A k \in DOMAIN users : users[k].email = k
  /\ \A k1, k2 \in DOMAIN users : users[k1].email = users[k2].email => k1 = k2

\* two users are stored, and the store refused a duplicate of one of them
C3_Witness ==
  /\ Cardinality(DOMAIN users) = 2
  /\ \E p \in Procs :
       Done(p, "signup") /\ proc[p].status = 500 /\ proc[p].gh.raced
         /\ proc[p].req.email \in DOMAIN users

\* the input a login accepts: binding:"required,email" and "required"
ValidLogin(p) == IsEmail(proc[p].req.email) /\ proc[p].req.password # ""

\* the submitted password is the one the stored hash was made from
Matches(user, pw) == user # Null /\ user.password.digest = BcryptKey(pw)

\* C4: a login with well-formed input answers 200, with a token and the
\* view of the user, exactly when the store held a user under that email
\* when it was looked up and the password matches that user's hash; every
\* other login with well-formed input answers 401.
C4_LoginIff ==
  \A p \in Procs :
    Done(p, "login") /\ ValidLogin(p) =>
      IF Matches(proc[p].gh.stored, proc[p].req.password)
        THEN /\ proc[p].status = 200
             /\ proc[p].body.user = UserResponse(proc[p].gh.stored)
             /\ proc[p].body.token \in IssuedTokens
        ELSE proc[p].status = 401

\* a login that succeeded beside one refused for its password
C4_Witness ==
  \E p, q \in Procs :
    /\ Done(p, "login") /\ proc[p].status = 200
    /\ Done(q, "login") /\ proc[q].status = 401 /\ proc[q].gh.stored # Null

\* C5: a login for an unregistered email and a failed login for a
\* registered email are answered with the same status, 401, and the same
\* body.
C5_SameRefusal ==
  \A p, q \in Procs :
    /\ Done(p, "login") /\ ValidLogin(p) /\ proc[p].gh.stored = Null
    /\ Done(q, "login") /\ ValidLogin(q) /\ proc[q].gh.stored # Null
    /\ proc[q].status # 200
    => /\ proc[p].status = 401 /\ proc[q].status = 401
       /\ proc[p].body = proc[q].body

\* one login refused for an unknown email beside one refused for its password
C5_Witness ==
  \E p, q \in Procs :
    /\ Done(p, "login") /\ ValidLogin(p) /\ proc[p].gh.stored = Null
    /\ Done(q, "login") /\ ValidLogin(q) /\ proc[q].gh.stored # Null
    /\ proc[q].status = 401 /\ proc[p].status = 401

\* the user objects a response body carries
UserViews(body) ==
  (IF "user" \in DOMAIN body THEN {body.user} ELSE {})
    \cup (IF "users" \in DOMAIN body THEN body.users ELSE {})

PublicUserFields == {"id", "email", "created_at", "updated_at"}

\* C6: no response of signup, login or the user routes carries a password
\* field: every user object in a body has public fields only, and a token
\* carries the user ID, the email and the dates only.
C6_NoPasswordInResponse ==
  \A p \in Procs :
    proc[p].pc = "done" =>
      /\ \A v \in UserViews(proc[p].body) : DOMAIN v \subseteq PublicUserFields
      /\ "token" \in DOMAIN proc[p].body =>
           DOMAIN proc[p].body.token.claims =
             {"user_id", "email", "exp", "iat", "nbf"}

\* a user list with a stored user in it, beside an answered signup or login
C6_Witness ==
  \E p, q \in Procs :
    /\ Done(p, "listusers") /\ proc[p].body.count >= 1
    /\ proc[q].pc = "done" /\ "token" \in DOMAIN proc[q].body

\* ------------------------------------------------------------------------
\* Clients that obtain tokens and present them while the clock runs
\* ------------------------------------------------------------------------
\* The store and the tokens handed out once two signups, {a@x.io, secret1}
\* and then {b@x.io, hunter22}, have been answered 201 at clock reading 0.
Registered(id, email, pw) ==
  [id |-> id, email |-> email,
   password |-> GenerateFromPassword(pw, BcryptCost, 1).hash,
   created_at |-> 0, updated_at |-> 0]

RegisteredUsers ==
  ("a@x.io" :> Registered(1, "a@x.io", "secret1"))
    @@ ("b@x.io" :> Registered(2, "b@x.io", "hunter22"))

RegisteredTokens ==
  {IssuedToken(GenerateJWT(users[e].id, e, 0), users[e].id, e, 0) :
     e \in DOMAIN users}

AfterSignups ==
  /\ now = 0 /\ users = RegisteredUsers /\ goals = EmptyMap /\ heap = << >>
  /\ mu = [w |-> 0, r |-> {}] /\ proc = [p \in Procs |-> Idle]
  /\ nextUUID = 3 /\ issued = RegisteredTokens /\ loggedOut = {}

InitToken == AfterSignups /\ left = TokenReqs

\* The two users log in and log out.
NextToken ==
  \/ Clock
  \/ \E p \in Procs :
       \/ RLock(p) \/ Finish(p) \/ GetUserByEmail(p)
       \/ LoginHandler(p) \/ LogoutHandler(p)

SpecToken == InitToken /\ [][NextToken]_vars

\* ------------------------------------------------------------------------
\* Properties of tokens (checked under SpecToken)
\* ------------------------------------------------------------------------
Accepted(tok, t) == ~ValidateJWT(tok, t).err

\* C7, as claimed: a token issued at T is accepted at every time from T up
\* to, and not including, T + 24h, and rejected at every time from T + 24h.
C7_TokenWindow_Claimed ==
  \A i \in issued :
    /\ i.at <= now /\ now < i.at + TokenTTL => Accepted(i.tok, now)
    /\ now >= i.at + TokenTTL => ~Accepted(i.tok, now)

\* C7, amended: with E the whole second that T + 24h falls in, a token
\* issued at T is accepted at every time from T up to, and not including,
\* E, and rejected at every time from E.
C7_TokenWindow ==
  \A i \in issued :
    LET E == (i.at + TokenTTL) - ((i.at + TokenTTL) % TicksPerSecond)
    IN /\ i.at <= now
       /\ now < E => Accepted(i.tok, now)
       /\ now >= E => ~Accepted(i.tok, now)

\* a token issued within a second is refused within the second its 24
\* hours end in, and a logout carrying it is answered 401
C7_Witness ==
  \E i \in issued, p \in Procs :
    /\ i.at % TicksPerSecond # 0
    /\ now < i.at + TokenTTL
    /\ ~Accepted(i.tok, now)
    /\ Done(p, "logout") /\ proc[p].req.header = <<"Bearer", i.tok>>
    /\ proc[p].gh.at = now /\ proc[p].status = 401

\* the token a logout carried, when its header is "Bearer <token>"
Carried(p) == BearerToken(proc[p].req.header).tok

\* C8: of all a client can present, ValidateJWT accepts only a token under
\* an HMAC method whose signature verifies under the server secret, inside
\* its validity window; such a token was issued, and the claims returned
\* are the user ID and email GenerateJWT was given for it; a token under
\* another method, or whose signature does not verify, is refused. The
\* middleware lets a request through only as the user its token was issued
\* for, and a logout answered 200 names that user.
C8_ValidateSound ==
  /\ \A tok \in Presentable :
       LET v == ValidateJWT(tok, now)
           g == AuthMiddleware(<<"Bearer", tok>>, now)
           signed == tok # NoToken /\ tok.alg \in HMACMethods
                       /\ tok.sig = Sign(tok.alg, tok.claims, JWTSecret)
       IN /\ ~signed => v.err /\ g.abort
          /\ ~v.err =>
               /\ signed
               /\ tok.claims.nbf <= now /\ now < tok.claims.exp
               /\ tok \in IssuedTokens
               /\ \A i \in issued : i.tok = tok =>
                    v.claims.user_id = i.user_id /\ v.claims.email = i.email
          /\ ~g.abort =>
               \E i \in issued :
                 i.tok = tok /\ g.userID = i.user_id /\ g.email = i.email
  /\ \A p \in Procs :
       Done(p, "logout") /\ proc[p].status = 200 =>
         \E i \in issued : i.tok = Carried(p) /\ proc[p].body.user_id = i.user_id

\* a logout answered 200 for an issued token, beside a logout refused for
\* a token a client made from an issued one
C8_Witness ==
  \E p, q \in Procs :
    /\ Done(p, "logout") /\ proc[p].status = 200 /\ Carried(p) \in IssuedTokens
    /\ Done(q, "logout") /\ proc[q].status = 401
    /\ \E t \in IssuedTokens : Carried(q) \in Forgeries(t)

\* C9: a token a logout was answered 200 for is accepted by ValidateJWT
\* and let through by the middleware at every time before its expiry, and
\* a logout that carries it after that logout, before its expiry, is
\* answered 200.
C9_NoRevocation ==
  /\ \A tok \in loggedOut :
       now < tok.claims.exp =>
         Accepted(tok, now) /\ ~AuthMiddleware(<<"Bearer", tok>>, now).abort
  /\ \A p \in Procs :
       /\ Done(p, "logout")
       /\ Carried(p) \in IssuedTokens
       /\ proc[p].gh.afterLogout
       /\ proc[p].gh.at < Carried(p).claims.exp
       => proc[p].status = 200

\* two logouts of one token were answered 200, the second after the first
\* and after the clock moved, and the token is still accepted
C9_Witness ==
  \E p, q \in Procs :
    /\ p # q /\ Done(p, "logout") /\ Done(q, "logout")
    /\ Carried(p) = Carried(q) /\ Carried(p) \in loggedOut
    /\ proc[p].gh.at < proc[q].gh.at
    /\ ~proc[p].gh.afterLogout /\ proc[q].gh.afterLogout
    /\ proc[p].status = 200 /\ proc[q].status = 200
    /\ Accepted(Carried(p), now)

\* ------------------------------------------------------------------------
\* Clients that hold tokens and work on their goals, one request at a time
\* ------------------------------------------------------------------------
InitGoal == AfterSignups /\ left = GoalReqs

NextGoal ==
  \/ Tick
  \/ \E p \in {1} :
       \/ RLock(p) \/ Lock(p) \/ GoalStore(p) \/ Finish(p)
       \/ CreateGoalHandler(p) \/ GetGoalsHandler(p)
       \/ UpdateGoalProgressHandler(p) \/ DeleteGoalHandler(p)

SpecGoal == InitGoal /\ [][NextGoal]_vars

\* ------------------------------------------------------------------------
\* Properties of goals (checked under SpecGoal)
\* ------------------------------------------------------------------------
\* C10: once a goal has a completion timestamp, no step changes it.
C10_CompletedAtOnce ==
  [][\A a \in DOMAIN heap :
       heap[a].completed_at # NoTime =>
         heap'[a].completed_at = heap[a].completed_at]_vars

\* ------------------------------------------------------------------------
\* Clients that work on one stored goal at the same time
\* ------------------------------------------------------------------------
\* The store once user 1 has created a goal at clock reading 0.
FirstGoal ==
  NewGoal(3, 1, [title |-> "Trip", target_amount |-> 2, duration |-> "weekly"], 0)

AfterCreate ==
  /\ now = 0 /\ users = RegisteredUsers
  /\ goals = (3 :> 1) /\ heap = <<FirstGoal>>
  /\ mu = [w |-> 0, r |-> {}] /\ proc = [p \in Procs |-> Idle]
  /\ nextUUID = 4 /\ issued = RegisteredTokens /\ loggedOut = {}

InitRace == AfterCreate /\ left = RaceReqs

\* Both users list goals, add progress and delete, in every interleaving.
NextRace ==
  \E p \in Procs :
    \/ RLock(p) \/ Lock(p) \/ Finish(p)
    \/ GetGoalsByUserID(p) \/ GetGoalByID(p) \/ UpdateGoal(p) \/ DeleteGoal(p)
    \/ GetGoalsHandler(p) \/ UpdateGoalProgressHandler(p) \/ DeleteGoalHandler(p)

SpecRace == InitRace /\ [][NextRace]_vars

\* no request is between its first and its last step
Quiet == \A p \in Procs : proc[p].pc \in {"idle", "done"}

\* C11: every stored goal is completed exactly when its current amount has
\* reached its target amount, and carries a completion timestamp exactly
\* when it is completed; read in the states where no request is under way,
\* whatever the interleaving that led there.
C11_CompletedIffReached ==
  Quiet =>
    \A a \in Stored :
      /\ heap[a].completed <=> heap[a].current_amount >= heap[a].target_amount
      /\ heap[a].completed_at # NoTime <=> heap[a].completed

\* C12: a stored goal whose completed flag is true keeps it true in every
\* step for as long as it stays stored, whatever requests interleave.
C12_CompletedStays ==
  [][\A id \in DOMAIN goals \cap DOMAIN goals' :
       heap[goals[id]].completed => heap'[goals'[id]].completed]_vars

\* an update-progress smaller than the target was answered 200 on a goal
\* that had reached its target before, and the goal is still completed
C12_Witness ==
  \E p \in Procs :
    /\ Done(p, "progress") /\ proc[p].status = 200
    /\ proc[p].req.amount < proc[p].body.target_amount
    /\ proc[p].body.current_amount - proc[p].req.amount
         >= proc[p].body.target_amount
    /\ proc[p].body.completed
    /\ proc[p].gh.found \in Stored /\ heap[proc[p].gh.found].completed

\* what the gatekeeper made of the request's header when it arrived
Gate(p) == Gatekeeper(proc[p].req.header, proc[p].gh.at)

\* The request passed the gatekeeper and names a goal of another user: one
\* that is in the store (so it was there all the while: no ID is stored
\* twice), or the one its lookup found.
ForeignGoal(p) ==
  /\ ~Gate(p).abort
  /\ \/ /\ proc[p].req.id \in DOMAIN goals
        /\ heap[goals[proc[p].req.id]].user_id # Gate(p).userID
     \/ /\ proc[p].gh.found # 0
        /\ heap[proc[p].gh.found].user_id # Gate(p).userID

\* 403, nothing of the goal in the body, and no change made by the request
Refused403(p) ==
  /\ proc[p].status = 403
  /\ proc[p].body = ErrorBody("Forbidden")
  /\ proc[p].gh.writes = 0 /\ proc[p].gh.touched = 0

\* C13, as stated: an update-progress or delete request on an existing goal
\* of another user is always answered 403 Forbidden, with no field of the
\* goal in the response and the goal unchanged.
C13_ForbiddenAlways ==
  \A p \in Procs :
    (Done(p, "progress") \/ Done(p, "delete")) /\ ForeignGoal(p)
      => Refused403(p)

\* C13, amended: the same for every delete request and for every
\* update-progress request whose amount is > 0; an update-progress whose
\* amount is not > 0 is answered 400 before the goal is looked up, and
\* changes nothing either.
C13_ForbiddenWhenBound ==
  \A p \in Procs :
    (Done(p, "progress") \/ Done(p, "delete")) /\ ForeignGoal(p)
      => IF proc[p].op = "progress" /\ ~(proc[p].req.amount > 0)
           THEN /\ proc[p].status = 400
                /\ proc[p].body = ErrorBody("Invalid request")
                /\ proc[p].gh.writes = 0 /\ proc[p].gh.touched = 0
           ELSE Refused403(p)

\* both an update-progress and a delete by user 2 on the goal of user 1
\* were refused, and the goal is still stored as it was created
C13_Witness ==
  /\ \E p \in Procs :
       Done(p, "progress") /\ ForeignGoal(p) /\ proc[p].req.amount > 0
         /\ proc[p].status = 403
  /\ \E p \in Procs :
       Done(p, "delete") /\ ForeignGoal(p) /\ proc[p].status = 403
  /\ Stored = {1} /\ heap[1] = FirstGoal

\* C14: whatever requests interleave on a goal, an update-progress or
\* delete request that passed the gatekeeper ends with 200, 400, 403 or 404,
\* never with 500; one whose goal is gone when it writes ends with 404.
C14_ListedOutcomes ==
  \A p \in Procs :
    (Done(p, "progress") \/ Done(p, "delete")) /\ ~Gate(p).abort
      => proc[p].status \in {200, 400, 403, 404}

\* C15: a field of a stored goal changes only in a step taken while the
\* store's exclusive lock is held; no request changes a stored record while
\* the lock is free or held by readers.
C15_ChangesUnderLock ==
  [][\A a \in Stored : heap'[a] # heap[a] => mu.w # 0]_vars

\* C16: a request answered with a failure (4xx or 5xx) has made no change
\* to the store: it completed no insert, replace or removal and assigned no
\* field of a stored record.
C16_FailureChangesNothing ==
  \A p \in Procs :
    proc[p].pc = "done" /\ proc[p].status >= 400
      => proc[p].gh.writes = 0 /\ proc[p].gh.touched = 0

GoalOps == {"creategoal", "listgoals", "progress", "delete"}

\* the header is "Bearer <token>" with a token ValidateJWT accepts when the
\* request arrives
BearsValidToken(p) ==
  LET h == proc[p].req.header
  IN Len(h) = 2 /\ h[1] = "Bearer" /\ ~ValidateJWT(h[2], proc[p].gh.at).err

\* the user ID embedded in the request's token
TokenUser(p) == proc[p].req.header[2].claims.user_id

\* C17: a request to a goal endpoint that does not bear a valid token is
\* answered 401 at once: it is never found inside the goal logic, it looked
\* up no goal and changed nothing in the store. A request that bears one
\* runs as the token's user: that is the user ID its handler works with,
\* the owner of the goal it creates, of every goal it lists, and of the
\* goal it updates or deletes.
C17_GoalsBehindToken ==
  \A p \in Procs :
    proc[p].op \in GoalOps =>
      IF ~BearsValidToken(p)
        THEN /\ proc[p].pc = "done" /\ proc[p].status = 401
             /\ "error" \in DOMAIN proc[p].body
             /\ proc[p].gh.writes = 0 /\ proc[p].gh.touched = 0
             /\ proc[p].gh.found = 0
        ELSE /\ proc[p].pc # "done" /\ proc[p].loc # Null
                  => proc[p].loc.userID = TokenUser(p)
             /\ proc[p].pc = "done" => proc[p].status # 401
             /\ proc[p].pc = "done" /\ proc[p].status \in {200, 201} =>
                  CASE proc[p].op = "listgoals" ->
                         \A g \in proc[p].body.goals : g.user_id = TokenUser(p)
                    [] proc[p].op = "delete" ->
                         heap[proc[p].gh.found].user_id = TokenUser(p)
                    [] OTHER -> proc[p].body.user_id = TokenUser(p)

\* user 2 has created a goal with their token, it is stored as theirs, and
\* a request bearing no valid token has just been answered 401
C17_Witness ==
  /\ \E a \in Stored : heap[a].user_id = 2
  /\ \E p \in Procs :
       /\ proc[p].op \in GoalOps /\ proc[p].pc = "done"
       /\ proc[p].req.header = <<"Bearer", NoToken>>
       /\ proc[p].status = 401

\* title present, target amount > 0, duration one of the three
ValidGoal(p) ==
  /\ proc[p].req.title # ""
  /\ proc[p].req.target_amount > 0
  /\ proc[p].req.duration \in Durations

\* How a create-goal request of an authenticated user is answered: 201 and
\* one insert when its input is valid, the body being the new goal (owner
\* the caller, current amount 0, not completed, no completion timestamp);
\* 400 and no change otherwise.
CreateGoalAnswered ==
  \A p \in Procs :
    Done(p, "creategoal") /\ BearsValidToken(p) =>
      IF ValidGoal(p)
        THEN /\ proc[p].status = 201 /\ proc[p].gh.writes = 1
             /\ proc[p].body.user_id = TokenUser(p)
             /\ proc[p].body.title = proc[p].req.title
             /\ proc[p].body.target_amount = proc[p].req.target_amount
             /\ proc[p].body.duration = proc[p].req.duration
             /\ proc[p].body.current_amount = 0
             /\ ~proc[p].body.completed
             /\ "completed_at" \notin DOMAIN proc[p].body
             /\ proc[p].body.id \in DOMAIN goals
             /\ MarshalGoal(heap[goals[proc[p].body.id]]) = proc[p].body
        ELSE /\ proc[p].status = 400
             /\ proc[p].gh.writes = 0 /\ proc[p].gh.touched = 0

\* What a step of a create-goal request does to the store: nothing, unless
\* it is the insert of a request with valid input, which adds one goal
\* under an ID that was not in the store and leaves every other goal and
\* every user as they were.
CreateGoalStored ==
  \A p \in Procs :
    proc[p].op = "creategoal" /\ proc'[p] # proc[p] =>
      /\ users' = users
      /\ \A a \in DOMAIN heap : heap'[a] = heap[a]
      /\ \/ goals' = goals
         \/ /\ ValidGoal(p) /\ BearsValidToken(p)
            /\ \E id \in DOMAIN goals' \ DOMAIN goals :
                 /\ DOMAIN goals' = DOMAIN goals \cup {id}
                 /\ \A i \in DOMAIN goals : goals'[i] = goals[i]
                 /\ goals'[id] \notin Stored
                 /\ heap'[goals'[id]].id = id
                 /\ heap'[goals'[id]].user_id = TokenUser(p)
                 /\ heap'[goals'[id]].current_amount = 0
                 /\ ~heap'[goals'[id]].completed
                 /\ heap'[goals'[id]].completed_at = NoTime

\* C18: a create-goal request by an authenticated user stores a goal if and
\* only if the title is non-empty, the target amount is > 0 and the
\* duration is weekly, monthly or yearly; the goal stored has an ID that
\* was not in the store, the caller as owner, current amount 0, completed
\* false and no completion timestamp, every other goal and every user
\* being unchanged; otherwise the answer is 400 and the store is unchanged.
C18_CreateGoal == [][CreateGoalAnswered' /\ CreateGoalStored]_vars

\* a second goal has just been created: two goals are stored, and the
\* request was answered 201 with the new one
C18_Witness ==
  \E p \in Procs :
    /\ Done(p, "creategoal") /\ proc[p].status = 201
    /\ proc[p].body.id \in DOMAIN goals
    /\ Cardinality(DOMAIN goals) = 2

\* the number of days of month m of year y
DaysInMonth(y, m) ==
  IF m = 12 THEN 31 ELSE DaysFromCivil(y, m + 1, 1) - DaysFromCivil(y, m, 1)

\* Calendar addition of years and months: the same day of the month, the
\* same time of day, in the month that many months later; the last day of
\* that month when it has no such day.
CalendarAdd(t, years, months) ==
  LET c == CivilFromDays(StartDay + t \div TicksPerDay)
      m0 == c.m - 1 + months
      y == c.y + years + m0 \div 12
      m == (m0 % 12) + 1
      d == IF c.d <= DaysInMonth(y, m) THEN c.d ELSE DaysInMonth(y, m)
  IN (DaysFromCivil(y, m, d) - StartDay) * TicksPerDay + (t % TicksPerDay)

\* C19: the end date of every created goal is its start date plus 7 days
\* when weekly, plus one calendar month when monthly, plus one calendar
\* year when yearly, also when the start is the last day of a month.
C19_EndDate ==
  \A a \in Stored :
    heap[a].end_date =
      CASE heap[a].duration = "weekly" ->
             heap[a].start_date + 7 * TicksPerDay
        [] heap[a].duration = "monthly" -> CalendarAdd(heap[a].start_date, 0, 1)
        [] heap[a].duration = "yearly" -> CalendarAdd(heap[a].start_date, 1, 0)

\* the goals of user uid in the store, as they are written in a response
GoalsOf(uid) == {MarshalGoal(heap[a]) : a \in {b \in Stored : heap[b].user_id = uid}}

\* a list-goals request is answered 200 with exactly the caller's stored
\* goals, and has changed nothing
ListedOwnGoals(p) ==
  /\ proc[p].status = 200
  /\ proc[p].body.goals = GoalsOf(TokenUser(p))
  /\ proc[p].gh.writes = 0 /\ proc[p].gh.touched = 0

\* C20: a list-goals request by an authenticated user is answered 200 with
\* exactly the stored goals that user owns and none of another user; when
\* the user owns no goal the body is an empty collection, not null; the
\* store is unchanged.
C20_ListGoals ==
  \A p \in Procs :
    Done(p, "listgoals") /\ BearsValidToken(p)
      => ListedOwnGoals(p) /\ ~proc[p].body.null

\* ------------------------------------------------------------------------
\* Properties of logout (checked under SpecToken)
\* ------------------------------------------------------------------------
\* C21: a logout request without an Authorization header, with a header
\* that is not Bearer <token>, or with a token ValidateJWT rejects is
\* answered 401 with an error message; one with a token ValidateJWT accepts
\* is answered 200 with the user ID embedded in that token.
C21_LogoutOutcome ==
  \A p \in Procs :
    Done(p, "logout") =>
      LET h == proc[p].req.header
      IN IF Len(h) = 2 /\ h[1] = "Bearer" /\ Accepted(h[2], proc[p].gh.at)
           THEN /\ proc[p].status = 200
                /\ proc[p].body.user_id = h[2].claims.user_id
           ELSE /\ proc[p].status = 401
                /\ "error" \in DOMAIN proc[p].body

\* one logout was answered 200 with the user ID of its token while another
\* was refused for a header that is not Bearer <token>
C21_Witness ==
  \E p, q \in Procs :
    /\ Done(p, "logout") /\ proc[p].status = 200
    /\ proc[p].body.user_id = Carried(p).claims.user_id
    /\ Done(q, "logout") /\ proc[q].status = 401
    /\ proc[q].req.header \in MalformedHeaders

\* Clients log out while the store holds two users and a goal.
InitLogout == AfterCreate /\ left = TokenReqs

NextLogout ==
  \/ Clock
  \/ \E p \in Procs : LogoutHandler(p) \/ Finish(p)

SpecLogout == InitLogout /\ [][NextLogout]_vars

Serve(p) ==
  \/ RLock(p) \/ Lock(p)
  \/ GetGoalsByUserID(p) \/ GetGoalByID(p) \/ UpdateGoal(p) \/ DeleteGoal(p)
  \/ GetGoalsHandler_Respond(p)
  \/ UpdateGoalProgressHandler_Owner(p) \/ UpdateGoalProgressHandler_Add(p)
  \/ UpdateGoalProgressHandler_Complete(p) \/ UpdateGoalProgressHandler_Respond(p)
  \/ DeleteGoalHandler_Owner(p) \/ DeleteGoalHandler_Respond(p)

\* The Go scheduler runs every runnable goroutine again and again; a
\* goroutine blocked in RLock or Lock is woken when the mutex is handed on
\* (sync.RWMutex keeps new readers out while a writer waits and lets the
\* waiting readers in when a writer unlocks).
FairRace ==
  \A p \in Procs :
    WF_vars(Serve(p)) /\ SF_vars(RLock(p)) /\ SF_vars(Lock(p))

SpecRaceFair == SpecRace /\ FairRace

\* C23: under fair scheduling every request that has arrived is answered,
\* and every lock a request holds is released again, whatever the
\* interleaving; no request waits for the mutex forever.
C23_EveryRequestEnds ==
  \A p \in Procs :
    /\ (proc[p].op # "idle") ~> (proc[p].pc = "done")
    /\ (mu.w = p) ~> (mu.w # p)
    /\ (p \in mu.r) ~> (p \notin mu.r)

\* a request waits in Lock while another request holds the read lock
C23_Witness ==
  \E p, q \in Procs :
    /\ p # q
    /\ proc[p].call = "lock" /\ proc[p].fn \in WriteFns
    /\ q \in mu.r

\* ------------------------------------------------------------------------
\* Properties of concurrent updates (checked under SpecRace)
\* ------------------------------------------------------------------------
\* The only two requests made so far are update-progress requests on the
\* first goal, and both were answered 200.
TwoUpdatesDone ==
  /\ left = RaceReqs - 2
  /\ \A p \in Procs :
       Done(p, "progress") /\ proc[p].status = 200 /\ proc[p].gh.found = 1

\* C24: two update-progress requests by the owner on one goal, with
\* amounts a and b, that were both answered 200 leave the current amount at
\* initial + a + b when one read the amount after the other wrote it, and
\* at initial + a or initial + b, an update being lost, when both read the
\* amount before either wrote it; the witness shows that this interleaving
\* exists.
C24_LostUpdate ==
  TwoUpdatesDone =>
    LET a == proc[1].req.amount
        b == proc[2].req.amount
        initial == FirstGoal.current_amount
    IN IF proc[1].gh.read # proc[2].gh.read
         THEN heap[1].current_amount = initial + a + b
         ELSE /\ proc[1].gh.read = initial
              /\ heap[1].current_amount \in {initial + a, initial + b}

\* both requests were answered 200 and the current amount is less than
\* the initial amount plus both increments
C24_Witness ==
  /\ TwoUpdatesDone
  /\ heap[1].current_amount
       < FirstGoal.current_amount + proc[1].req.amount + proc[2].req.amount

\* ------------------------------------------------------------------------
\* Properties of update-progress, one request at a time (under SpecGoal)
\* ------------------------------------------------------------------------
\* the request passed the gatekeeper with an amount > 0 for a stored goal
\* of the caller
OwnUpdate(p) ==
  /\ BearsValidToken(p)
  /\ proc[p].req.amount > 0
  /\ proc[p].req.id \in DOMAIN goals
  /\ heap[goals[proc[p].req.id]].user_id = TokenUser(p)

\* the fields of a goal an update-progress request does not change
KeptFields(g) ==
  [id |-> g.id, user_id |-> g.user_id, title |-> g.title,
   target_amount |-> g.target_amount, duration |-> g.duration,
   start_date |-> g.start_date, end_date |-> g.end_date,
   created_at |-> g.created_at]

\* How such a request is answered: 200, the goal replaced once under its
\* ID, its current amount the amount read plus the request's amount.
OwnUpdateAnswered ==
  \A p \in Procs :
    Done(p, "progress") /\ OwnUpdate(p) =>
      LET g == heap[goals[proc[p].req.id]]
      IN /\ proc[p].status = 200 /\ proc[p].gh.writes = 1
         /\ g.current_amount = proc[p].gh.read + proc[p].req.amount
         /\ proc[p].body = MarshalGoal(g)

\* What a step of such a request changes: no user, no goal ID, no goal
\* but its own, and of its own goal only the current amount, which it
\* raises by the request's amount, and the completion fields.
OwnUpdateFrame ==
  \A p \in Procs :
    proc[p].op = "progress" /\ proc'[p] # proc[p] =>
      /\ users' = users /\ goals' = goals
      /\ \A a \in DOMAIN heap :
           /\ KeptFields(heap'[a]) = KeptFields(heap[a])
           /\ heap'[a] # heap[a] =>
                /\ OwnUpdate(p) /\ a = goals[proc[p].req.id]
                /\ heap'[a].current_amount \in
                     {heap[a].current_amount,
                      heap[a].current_amount + proc[p].req.amount}

\* C25: an update-progress request with amount a > 0 by the owner of a
\* stored goal, overlapping no other request, is answered 200, raises the
\* goal's current amount by exactly a, and leaves the goal's ID, owner,
\* title, target amount, duration, start and end dates, every other goal
\* and every user unchanged.
C25_UpdateAddsExactly == [][OwnUpdateAnswered' /\ OwnUpdateFrame]_vars

\* an update of one of two stored goals has been answered 200 with the
\* amount raised
C25_Witness ==
  \E p \in Procs :
    /\ Done(p, "progress") /\ OwnUpdate(p) /\ proc[p].status = 200
    /\ Cardinality(DOMAIN goals) = 2
    /\ proc[p].body.current_amount = proc[p].gh.read + proc[p].req.amount

\* C26: an update-progress request of an authenticated user is checked in
\* a fixed order: an amount that is missing or <= 0 is answered 400,
\* without a lookup, whether or not the goal exists or is the caller's;
\* otherwise a goal ID that is not stored is answered 404; otherwise a goal
\* of another user is answered 403; the goal is changed only when all
\* three checks pass.
C26_CheckOrder ==
  \A p \in Procs :
    Done(p, "progress") /\ BearsValidToken(p) =>
      LET unchanged == proc[p].gh.writes = 0 /\ proc[p].gh.touched = 0
          id == proc[p].req.id
      IN IF ~(proc[p].req.amount > 0)
           THEN proc[p].status = 400 /\ unchanged /\ proc[p].gh.found = 0
         ELSE IF id \notin DOMAIN goals
           THEN proc[p].status = 404 /\ unchanged
         ELSE IF heap[goals[id]].user_id # TokenUser(p)
           THEN proc[p].status = 403 /\ unchanged
         ELSE /\ proc[p].status = 200
              /\ proc[p].gh.writes = 1 /\ proc[p].gh.touched >= 1

\* an update-progress with amount 0 for a stored goal of another user has
\* been answered 400
C26_Witness ==
  \E p \in Procs :
    /\ Done(p, "progress") /\ BearsValidToken(p)
    /\ proc[p].req.amount = 0
    /\ proc[p].req.id \in DOMAIN goals
    /\ heap[goals[proc[p].req.id]].user_id # TokenUser(p)
    /\ proc[p].status = 400

\* ------------------------------------------------------------------------
\* The store functions called directly, with keys that are and are not
\* stored
\* ------------------------------------------------------------------------
StoreEmails == {"a@x.io", "c@x.io"}
StoreIDs == {3, 4}

\* a Goal object of user 2 made by the caller under the given ID
GoalArg(id) == [FirstGoal EXCEPT !.id = id, !.user_id = 2, !.title = "Car"]

\* a caller passes a new User or Goal object, or an ID, to a store function
CallStore(p) ==
  /\ CanStart(p)
  /\ \/ \E e \in StoreEmails :
          /\ proc' = [proc EXCEPT ![p] =
               Call(Begin("store", [fn |-> "CreateUser", email |-> e]),
                    "CreateUser", Registered(9, e, "secret1"), "store")]
          /\ heap' = heap
     \/ \E fn \in {"CreateGoal", "UpdateGoal"}, id \in StoreIDs :
          /\ proc' = [proc EXCEPT ![p] =
               Call(Begin("store", [fn |-> fn, id |-> id]),
                    fn, Len(heap) + 1, "store")]
          /\ heap' = Append(heap, GoalArg(id))
     \/ \E id \in StoreIDs :
          /\ proc' = [proc EXCEPT ![p] =
               Call(Begin("store", [fn |-> "DeleteGoal", id |-> id]),
                    "DeleteGoal", id, "store")]
          /\ heap' = heap
  /\ left' = left - 1
  /\ UNCHANGED <<now, users, goals, mu, nextUUID, issued, loggedOut>>

\* the store function has returned its error value to the caller
StoreReturn(p) ==
  /\ proc[p].pc = "store"
  /\ proc[p].call = "ret"
  /\ proc' = [proc EXCEPT ![p] =
       Respond(proc[p], 0, [err |-> proc[p].ret.err])]
  /\ UNCHANGED <<now, users, goals, heap, mu, nextUUID, left, issued, loggedOut>>

InitStore == AfterCreate /\ left = StoreCalls

NextStore ==
  \E p \in Procs :
    \/ CallStore(p) \/ Lock(p) \/ StoreReturn(p) \/ Finish(p)
    \/ CreateUser(p) \/ CreateGoal(p) \/ UpdateGoal(p) \/ DeleteGoal(p)

SpecStore == InitStore /\ [][NextStore]_vars

\* the step in which store function fn, called by p, runs and returns
Runs(p, fn) == Held(p, fn) /\ proc'[p].call = "ret"

\* C27: createUser with an email that is stored, and createGoal with an ID
\* that is stored, return an error and leave the whole store unchanged: the
\* record stored under that email or ID is neither replaced nor altered.
C27_CreateExisting ==
  [][\A p \in Procs :
       \/ Runs(p, "CreateUser") /\ proc[p].arg.email \in DOMAIN users
       \/ Runs(p, "CreateGoal") /\ heap[proc[p].arg].id \in DOMAIN goals
       => /\ proc'[p].ret.err
          /\ users' = users /\ goals' = goals /\ heap' = heap]_vars

\* createUser for a stored email and createGoal for a stored ID have both
\* returned an error, and the records stored under them are the old ones
C27_Witness ==
  \E p, q \in Procs :
    /\ Done(p, "store") /\ proc[p].req.fn = "CreateUser"
    /\ proc[p].req.email = "a@x.io" /\ proc[p].body.err
    /\ users["a@x.io"] = RegisteredUsers["a@x.io"]
    /\ Done(q, "store") /\ proc[q].req.fn = "CreateGoal"
    /\ proc[q].req.id = 3 /\ proc[q].body.err
    /\ 3 \in DOMAIN goals /\ goals[3] = 1 /\ heap[1] = FirstGoal

\* C28: updateGoal(goal) with an ID that is not stored returns an error and
\* inserts nothing; with an ID that is stored it puts the given record, as
\* a whole, under that ID; in both cases the set of stored goal IDs, every
\* other goal and every user are unchanged.
C28_UpdateGoal ==
  [][\A p \in Procs :
       Runs(p, "UpdateGoal") =>
         LET id == heap[proc[p].arg].id
         IN /\ DOMAIN goals' = DOMAIN goals
            /\ users' = users /\ heap' = heap
            /\ \A i \in DOMAIN goals \ {id} : goals'[i] = goals[i]
            /\ IF id \in DOMAIN goals
                 THEN /\ ~proc'[p].ret.err
                      /\ heap'[goals'[id]] = heap[proc[p].arg]
                 ELSE proc'[p].ret.err /\ goals' = goals]_vars

\* updateGoal has replaced the goal stored under ID 3 by the record it was
\* given, and updateGoal for ID 4, which is not stored, returned an error
C28_Witness ==
  \E p, q \in Procs :
    /\ Done(p, "store") /\ proc[p].req.fn = "UpdateGoal"
    /\ proc[p].req.id = 3 /\ ~proc[p].body.err
    /\ 3 \in DOMAIN goals /\ heap[goals[3]] = GoalArg(3)
    /\ Done(q, "store") /\ proc[q].req.fn = "UpdateGoal"
    /\ proc[q].req.id = 4 /\ proc[q].body.err
    /\ 4 \notin DOMAIN goals

\* a delete-goal request answered 200 stays answered for as long as its
\* slot is not reused; in all that time its goal ID is not in the store
DeletedStaysAbsent ==
  \A p \in Procs :
    Done(p, "delete") /\ proc[p].status = 200
      => proc[p].req.id \notin DOMAIN goals

\* a list-goals request that reads the store after a delete was answered
\* 200 does not get the deleted goal
ListedAfterDelete ==
  \A p, q \in Procs :
    Done(p, "delete") /\ proc[p].status = 200 /\ Runs(q, "GetGoalsByUserID")
      => \A a \in proc'[q].ret.goals : heap[a].id # proc[p].req.id

\* C29: once a delete-goal request has been answered 200 for a goal ID,
\* the ID is absent from the store in every later state: an update-progress
\* that read the goal before the delete and writes after it does not put
\* the goal back, and no later list-goals returns it.
C29_DeletedForGood == [][DeletedStaysAbsent' /\ ListedAfterDelete]_vars

\* a delete was answered 200, and an update-progress that had assigned
\* the goal before has been refused by UpdateGoal after it; the ID is
\* absent
C29_Witness ==
  \E p, q \in Procs :
    /\ Done(p, "delete") /\ proc[p].status = 200
    /\ Done(q, "progress") /\ proc[q].req.id = proc[p].req.id
    /\ proc[q].gh.touched > 0 /\ proc[q].status = 500
    /\ proc[p].req.id \notin DOMAIN goals

\* C30: whatever requests interleave, the current amount of a stored goal
\* is >= 0 and no step lowers it.
C30_AmountNeverFalls ==
  [][\A a \in Stored :
       /\ heap[a].current_amount >= 0 /\ heap'[a].current_amount >= 0
       /\ heap'[a].current_amount >= heap[a].current_amount]_vars

\* ------------------------------------------------------------------------
\* Stored users are kept as they are (checked under SpecAuth)
\* ------------------------------------------------------------------------
\* the store holds a user under that email whose hash was made from pw
Registers(e, pw) == e \in DOMAIN users /\ Matches(users[e], pw)

\* no step removes a stored user or changes one of its fields
UsersKept ==
  \A e \in DOMAIN users : e \in DOMAIN users' /\ users'[e] = users[e]

\* a signup answered 201 has its user in the store, under its email, with
\* the hash of its password
SignupRegistered ==
  \A p \in Procs :
    Done(p, "signup") /\ proc[p].status = 201 =>
      Registers(proc[p].req.email, proc[p].req.password)

\* a login that began when the store held the user of (email, password)
\* is answered 200 with a token and the view of that user
LoginAfterSignup ==
  \A p \in Procs :
    /\ Done(p, "login") /\ ~proc[p].gh.fresh
    /\ Registers(proc[p].req.email, proc[p].req.password)
    => /\ proc[p].status = 200
       /\ proc[p].body.user = UserResponse(users[proc[p].req.email])
       /\ proc[p].body.token \in IssuedTokens

InitOwner ==
  /\ now = 0 /\ users = EmptyMap /\ goals = EmptyMap /\ heap = << >>
  /\ mu = [w |-> 0, r |-> {}] /\ proc = [p \in Procs |-> Idle]
  /\ nextUUID = 1 /\ left = OwnerReqs /\ issued = {} /\ loggedOut = {}

\* The goal routes take their headers from GoalHeaders: no header, a
\* malformed one, or a token that signup or login has returned.
NextOwner ==
  \E p \in Procs :
    \/ RLock(p) \/ Lock(p) \/ Finish(p)
    \/ CreateUser(p) \/ GetUserByEmail(p) \/ GoalStore(p)
    \/ SignupHandler(p) \/ LoginHandler(p)
    \/ CreateGoalHandler(p) \/ GetGoalsHandler(p)
    \/ UpdateGoalProgressHandler(p) \/ DeleteGoalHandler(p)

SpecOwner == InitOwner /\ [][NextOwner]_vars

UserIDs == {users[e].id : e \in DOMAIN users}

\* C32: the owner ID of every stored goal is the ID of a stored user, the
\* goal requests carrying no token but those signup or login have issued.
C32_OwnerIsUser ==
  \A id \in DOMAIN goals : heap[goals[id]].user_id \in UserIDs

\* of two signups racing on one email the store has refused one, which was
\* answered 500 and got no token, and the user the other one stored owns a
\* stored goal
C32_Witness ==
  /\ \E p \in Procs :
       Done(p, "signup") /\ proc[p].gh.raced /\ proc[p].status = 500
  /\ \E id \in DOMAIN goals : heap[goals[id]].user_id \in UserIDs

====
